---- MODULE Spec2Model ----
(***************************************************************************)
(* Skill extraction and match scoring of the job portal backend.          *)
(*                                                                         *)
(*   backend/utils/skill_extractor.py   SkillExtractor                     *)
(*   backend/models/application.py      Application                        *)
(*   backend/config.py                  Config.KNOWN_SKILLS                *)
(*                                                                         *)
(* Texts are strings; the regular expressions of the extractor are         *)
(* computed character by character, as Python's re module matches them     *)
(* (leftmost match, greedy repetition with backtracking, non-overlapping   *)
(* findall).  Floats are kept as integers in hundredths.                   *)
(***************************************************************************)
EXTENDS Integers, Sequences, FiniteSets, TLC

(***************************************************************************)
(* Characters                                                              *)
(***************************************************************************)
Ch(s, i) == SubSeq(s, i, i)

CharsOf(s) == {Ch(s, i) : i \in 1..Len(s)}

UpperLetters == "ABCDEFGHIJKLMNOPQRSTUVWXYZ"

LowerLetters == "abcdefghijklmnopqrstuvwxyz"

Digits == "0123456789"

\* The printable ASCII characters in code-point order: 32 (space) to 95 (_),
\* and 97 (a) to 126 (~).
AsciiLow == " !\"#$%&'()*+,-./0123456789:;<=>?@ABCDEFGHIJKLMNOPQRSTUVWXYZ[\\]^_"

AsciiHigh == "abcdefghijklmnopqrstuvwxyz{|}~"

Ascii == AsciiLow \o AsciiHigh

\* ord(c) of a printable ASCII character.
Ord == [c \in CharsOf(Ascii) |->
          IF c \in CharsOf(AsciiLow)
          THEN 31 + (CHOOSE i \in 1..Len(AsciiLow) : Ch(AsciiLow, i) = c)
          ELSE 96 + (CHOOSE i \in 1..Len(AsciiHigh) : Ch(AsciiHigh, i) = c)]

\* The lower-case letter of each upper-case letter.
LowerTable ==
    [c \in CharsOf(UpperLetters) |->
        Ch(LowerLetters, CHOOSE i \in 1..Len(UpperLetters) : Ch(UpperLetters, i) = c)]

\* str.lower() on one character.
LowerChar(c) == IF c \in DOMAIN LowerTable THEN LowerTable[c] ELSE c

\* \w of the re module (ASCII part): letters, digits and underscore.
WordChars == CharsOf(UpperLetters) \cup CharsOf(LowerLetters) \cup CharsOf(Digits) \cup {"_"}

\* \s of the re module (the part that occurs in the texts).
SpaceChars == {" ", "\t", "\n"}

\* str.lower()
RECURSIVE Lower(_)
Lower(s) == IF s = "" THEN "" ELSE LowerChar(Head(s)) \o Lower(Tail(s))

\* \b at offset i of s (between character i and character i+1).
WordBoundary(s, i) ==
    LET before == i >= 1 /\ Ch(s, i) \in WordChars
        after  == i < Len(s) /\ Ch(s, i + 1) \in WordChars
    IN  before # after

\* The offset where the longest run of characters of class cls that starts
\* after offset p ends (p itself when there is none): a greedy cls*.
RECURSIVE RunEnd(_, _, _)
RunEnd(s, p, cls) ==
    IF p < Len(s) /\ Ch(s, p + 1) \in cls THEN RunEnd(s, p + 1, cls) ELSE p

\* The literal lit stands in s right after offset p.
StartsAt(s, p, lit) ==
    p + Len(lit) <= Len(s) /\ SubSeq(s, p + 1, p + Len(lit)) = lit

\* sub in s
Contains(s, sub) == \E i \in 0..(Len(s) - Len(sub)) : StartsAt(s, i, sub)

\* str.strip()
RECURSIVE LStrip(_)
LStrip(s) == IF s # "" /\ Head(s) \in SpaceChars THEN LStrip(Tail(s)) ELSE s

RECURSIVE RStrip(_)
RStrip(s) ==
    IF s # "" /\ Ch(s, Len(s)) \in SpaceChars THEN RStrip(SubSeq(s, 1, Len(s) - 1)) ELSE s

Strip(s) == RStrip(LStrip(s))

\* The set of the elements of a sequence.
Range(q) == {q[i] : i \in 1..Len(q)}

\* Python's None.
None == "<None>"

(***************************************************************************)
(* Config.KNOWN_SKILLS and the extractor's tables                          *)
(***************************************************************************)
KNOWN_SKILLS ==
    << "Python", "JavaScript", "Java", "C++", "C#", "Ruby", "PHP", "Go",
       "TypeScript", "Swift", "Kotlin", "Rust", "Scala", "R",
       "React", "Angular", "Vue.js", "Flask", "Django", "Express.js",
       "Spring Boot", "ASP.NET", "Laravel", "Ruby on Rails",
       "MongoDB", "MySQL", "PostgreSQL", "SQLite", "Redis", "Oracle",
       "SQL Server", "Cassandra", "DynamoDB", "Firebase",
       "AWS", "Azure", "Google Cloud", "Docker", "Kubernetes", "Jenkins",
       "Git", "GitHub", "GitLab", "CI/CD", "Terraform",
       "Machine Learning", "Deep Learning", "TensorFlow", "PyTorch",
       "NLP", "Computer Vision", "scikit-learn", "Keras",
       "REST API", "GraphQL", "Microservices", "Agile", "Scrum",
       "HTML", "CSS", "Bootstrap", "Tailwind CSS", "Node.js" >>

\* skill.lower() of every entry of Config.KNOWN_SKILLS.
KnownSkillsLower == [i \in 1..Len(KNOWN_SKILLS) |-> Lower(KNOWN_SKILLS[i])]

\* self.known_skills as __init__ builds it.
InitKnownSkills == {KnownSkillsLower[i] : i \in 1..Len(KNOWN_SKILLS)}

\* self.skill_variations as __init__ builds it, in the dict's order.
InitSkillVariations ==
    << [standard |-> "javascript",
        variations |-> <<"js", "javascript", "java script", "ecmascript">>],
       [standard |-> "node.js",
        variations |-> <<"nodejs", "node.js", "node js", "expressjs", "express.js">>],
       [standard |-> "react",
        variations |-> <<"react", "reactjs", "react.js", "react native">>],
       [standard |-> "python",
        variations |-> <<"python", "python3", "python 3">>],
       [standard |-> "sql",
        variations |-> <<"sql", "mysql", "postgresql", "sqlite", "tsql", "t-sql">>],
       [standard |-> "html/css",
        variations |-> <<"html", "css", "html5", "css3", "scss", "sass">>],
       [standard |-> "c++",
        variations |-> <<"c++", "cpp", "c plus plus">>],
       [standard |-> "c#",
        variations |-> <<"c#", "csharp", "c sharp">>] >>

\* The lead-ins of context_patterns, each with the alternatives of its
\* (?:with|in) group spelled out, in the order the pattern tries them.
ContextLeadIns ==
    << <<"proficient in ">>,
       <<"experience with ", "experience in ">>,
       <<"knowledge of ">>,
       <<"skilled in ">>,
       <<"expertise in ">>,
       <<"working with ">> >>

\* [\w\+\#\.] of Method 1.
TokenClass == WordChars \cup {"+", "#", "."}

\* [a-z\+\#\. ] of Method 4.
PhraseClass == CharsOf(LowerLetters) \cup {"+", "#", ".", " "}

(***************************************************************************)
(* SkillExtractor._find_original_case                                      *)
(***************************************************************************)
find_original_case(skill_lower) ==
    LET hits == {i \in 1..Len(KNOWN_SKILLS) : KnownSkillsLower[i] = skill_lower}
    IN  IF hits = {} THEN None
        ELSE KNOWN_SKILLS[CHOOSE i \in hits : \A j \in hits : i <= j]

(***************************************************************************)
(* Method 1: re.findall(r'\b[\w\+\#\.]+\b', text_lower)                    *)
(***************************************************************************)
\* The greedy run backs off until a \b follows it: the largest offset e in
\* p+1..e0 with a word boundary, p when there is none.
RECURSIVE BacktrackEnd(_, _, _)
BacktrackEnd(s, p, e0) ==
    IF e0 <= p THEN p
    ELSE IF WordBoundary(s, e0) THEN e0
    ELSE BacktrackEnd(s, p, e0 - 1)

RECURSIVE FindAllWords(_, _)
FindAllWords(s, p) ==
    IF p >= Len(s) THEN << >>
    ELSE IF ~WordBoundary(s, p) THEN FindAllWords(s, p + 1)
    ELSE LET e == BacktrackEnd(s, p, RunEnd(s, p, TokenClass))
         IN  IF e > p
             THEN <<SubSeq(s, p + 1, e)>> \o FindAllWords(s, e)
             ELSE FindAllWords(s, p + 1)

Method1(text_lower, known, found) ==
    LET words == FindAllWords(text_lower, 0)
    IN  found \cup {find_original_case(w) : w \in Range(words) \cap known}

(***************************************************************************)
(* Method 2: multi-word skills, skill.lower() in text_lower                *)
(***************************************************************************)
\* len(s.split())
RECURSIVE SplitCount(_, _)
SplitCount(s, inword) ==
    IF s = "" THEN 0
    ELSE IF Head(s) \in SpaceChars THEN SplitCount(Tail(s), FALSE)
    ELSE (IF inword THEN 0 ELSE 1) + SplitCount(Tail(s), TRUE)

\* The entries of Config.KNOWN_SKILLS with len(skill.split()) > 1.
MultiWordSkills == {i \in 1..Len(KNOWN_SKILLS) : SplitCount(KNOWN_SKILLS[i], FALSE) > 1}

\* The text with every line break replaced by a blank.
RECURSIVE JoinLines(_)
JoinLines(s) ==
    IF s = "" THEN ""
    ELSE (IF Head(s) = "\n" THEN " " ELSE Head(s)) \o JoinLines(Tail(s))

\* Multi-word skills looked up across line breaks.
Method2AcrossLines(text_lower, found) ==
    found \cup {KNOWN_SKILLS[i] : i \in
                  {j \in MultiWordSkills : Contains(JoinLines(text_lower), KnownSkillsLower[j])}}

Method2Overwrite(text_lower, found) ==
    {KNOWN_SKILLS[i] : i \in {j \in MultiWordSkills : Contains(text_lower, KnownSkillsLower[j])}}

Method2(text_lower, found) ==
    found \cup {KNOWN_SKILLS[i] : i \in
                  {j \in MultiWordSkills : Contains(text_lower, KnownSkillsLower[j])}}

(***************************************************************************)
(* Method 3: re.search(r'\b' + re.escape(variation) + r'\b', text_lower)   *)
(***************************************************************************)
SearchWord(s, variation) ==
    \E i \in 0..(Len(s) - Len(variation)) :
        /\ StartsAt(s, i, variation)
        /\ WordBoundary(s, i)
        /\ WordBoundary(s, i + Len(variation))

AddStandardUnguarded(found, original_skill) == found \cup {original_skill}

\* if original_skill: found_skills.add(original_skill)
AddStandard(found, original_skill) ==
    IF original_skill # None /\ original_skill # ""
    THEN found \cup {original_skill}
    ELSE found

\* The inner loop: the first variation that matches adds the standard
\* skill's original casing, when there is one, and ends the loop.
RECURSIVE CheckVariations(_, _, _, _, _)
CheckVariations(text_lower, standard, variations, k, found) ==
    IF k > Len(variations) THEN found
    ELSE IF SearchWord(text_lower, variations[k])
         THEN AddStandard(found, find_original_case(standard))
    ELSE CheckVariations(text_lower, standard, variations, k + 1, found)

RECURSIVE Method3From(_, _, _, _)
Method3From(text_lower, table, n, found) ==
    IF n > Len(table) THEN found
    ELSE Method3From(text_lower, table, n + 1,
             CheckVariations(text_lower, table[n].standard, table[n].variations, 1, found))

Method3(text_lower, table, found) == Method3From(text_lower, table, 1, found)

(***************************************************************************)
(* Method 4: context patterns                                              *)
(***************************************************************************)
\* re.findall(lead-in ([a-z\+\#\. ]+), s): the captured groups of the
\* non-overlapping matches, left to right.
RECURSIVE FindAllContext(_, _, _)
FindAllContext(s, p, leads) ==
    IF p >= Len(s) THEN << >>
    ELSE LET ok == {k \in 1..Len(leads) :
                      /\ StartsAt(s, p, leads[k])
                      /\ RunEnd(s, p + Len(leads[k]), PhraseClass) > p + Len(leads[k])}
         IN  IF ok = {} THEN FindAllContext(s, p + 1, leads)
             ELSE LET k == CHOOSE k \in ok : \A j \in ok : k <= j
                      q == p + Len(leads[k])
                      e == RunEnd(s, q, PhraseClass)
                  IN  <<SubSeq(s, q + 1, e)>> \o FindAllContext(s, e, leads)

\* re.split(r',|\sand\s', match)
RECURSIVE SplitPhrase(_, _, _)
SplitPhrase(s, p, start) ==
    IF p >= Len(s) THEN <<SubSeq(s, start + 1, Len(s))>>
    ELSE IF Ch(s, p + 1) = ","
         THEN <<SubSeq(s, start + 1, p)>> \o SplitPhrase(s, p + 1, p + 1)
    ELSE IF /\ p + 5 <= Len(s)
            /\ Ch(s, p + 1) \in SpaceChars
            /\ StartsAt(s, p + 1, "and")
            /\ Ch(s, p + 5) \in SpaceChars
         THEN <<SubSeq(s, start + 1, p)>> \o SplitPhrase(s, p + 5, p + 5)
    ELSE SplitPhrase(s, p + 1, start)

Method4(text_lower, known, found) ==
    LET captured == UNION {Range(FindAllContext(text_lower, 0, ContextLeadIns[n])) :
                              n \in 1..Len(ContextLeadIns)}
        fragments == UNION {{Strip(f) : f \in Range(SplitPhrase(m, 0, 0))} : m \in captured}
    IN  found \cup {find_original_case(skill_text) : skill_text \in fragments \cap known}

(***************************************************************************)
(* sorted(): Python compares str by code point                             *)
(***************************************************************************)
RECURSIVE StrLess(_, _)
StrLess(a, b) ==
    IF b = "" THEN FALSE
    ELSE IF a = "" THEN TRUE
    ELSE IF Head(a) = Head(b) THEN StrLess(Tail(a), Tail(b))
    ELSE Ord[Head(a)] < Ord[Head(b)]

\* Insert v into the ascending list q (after the elements equal to it).
RECURSIVE Insert(_, _)
Insert(q, v) ==
    IF q = << >> THEN <<v>>
    ELSE IF StrLess(v, Head(q)) THEN <<v>> \o q
    ELSE <<Head(q)>> \o Insert(Tail(q), v)

Unsorted(q) == q

RECURSIVE Sorted(_)
Sorted(q) == IF q = << >> THEN << >> ELSE Insert(Sorted(SubSeq(q, 1, Len(q) - 1)), q[Len(q)])

\* list(a_set): the elements in some order; the order of a set of str
\* depends on the process's hash seed.
RECURSIVE ListsOf(_)
ListsOf(S) ==
    IF S = {} THEN {<< >>}
    ELSE UNION {{<<v>> \o rest : rest \in ListsOf(S \ {v})} : v \in S}

(***************************************************************************)
(* SkillExtractor.extract_skills                                           *)
(***************************************************************************)
\* found_skills when the four methods have run.
FoundSkills(text, known, table) ==
    LET text_lower == Lower(text)
        m1 == Method1(text_lower, known, {})
        m2 == Method2(text_lower, m1)
        m3 == Method3(text_lower, table, m2)
    IN  Method4(text_lower, known, m3)

\* The values extract_skills may return: one per iteration order of the set.
extract_skills(text, known, table) ==
    IF text = "" THEN {<< >>}
    ELSE {Sorted(order) : order \in ListsOf(FoundSkills(text, known, table))}

(***************************************************************************)
(* The patterns of the field extractors, as the re module matches them:    *)
(* a pattern is a sequence of items, tried left to right with backtracking *)
(***************************************************************************)
\* cls{min,max}: a greedy repetition of one character class.
Rep(cls, min, max) ==
    [k |-> "cls", cls |-> cls, min |-> min, max |-> max, unbounded |-> FALSE, alts |-> << >>]

\* cls{min,}
AtLeast(cls, min) ==
    [k |-> "cls", cls |-> cls, min |-> min, max |-> min, unbounded |-> TRUE, alts |-> << >>]

\* \b
Boundary ==
    [k |-> "b", cls |-> {}, min |-> 0, max |-> 0, unbounded |-> FALSE, alts |-> << >>]

\* ( : the offset where a group opens or closes is kept.
Mark ==
    [k |-> "mark", cls |-> {}, min |-> 0, max |-> 0, unbounded |-> FALSE, alts |-> << >>]

\* (?:a|b|...): the alternatives, each a pattern, in the order tried.
Alt(alts) ==
    [k |-> "alt", cls |-> {}, min |-> 0, max |-> 0, unbounded |-> FALSE, alts |-> alts]

\* A literal string: its characters one by one.
Lit(w) == [i \in 1..Len(w) |-> Rep({Ch(w, i)}, 1, 1)]

\* The number of characters of cls that follow offset pos, at most limit
\* when the repetition is bounded.
RECURSIVE RunLength(_, _, _, _, _)
RunLength(s, pos, cls, bounded, limit) ==
    IF (bounded /\ limit = 0) \/ pos >= Len(s) \/ Ch(s, pos + 1) \notin cls THEN 0
    ELSE 1 + RunLength(s, pos + 1, cls, bounded, limit - 1)

\* The match of the pattern at offset pos: the offsets of its marks and the
\* offset where it ends, or << >> when it does not match there.  A greedy
\* repetition takes the most characters that let the rest match.
RECURSIVE MatchAt(_, _, _)
RECURSIVE MatchRep(_, _, _, _, _)
RECURSIVE MatchAlt(_, _, _, _, _)

MatchRep(item, rest, s, pos, n) ==
    IF n < item.min THEN << >>
    ELSE LET r == MatchAt(rest, s, pos + n)
         IN  IF r # << >> THEN r ELSE MatchRep(item, rest, s, pos, n - 1)

MatchAlt(alts, a, rest, s, pos) ==
    IF a > Len(alts) THEN << >>
    ELSE LET r == MatchAt(alts[a] \o rest, s, pos)
         IN  IF r # << >> THEN r ELSE MatchAlt(alts, a + 1, rest, s, pos)

MatchAt(items, s, pos) ==
    IF items = << >> THEN <<pos>>
    ELSE LET item == Head(items)
             rest == Tail(items)
         IN  CASE item.k = "b" ->
                    IF WordBoundary(s, pos) THEN MatchAt(rest, s, pos) ELSE << >>
               [] item.k = "mark" ->
                    LET r == MatchAt(rest, s, pos)
                    IN  IF r = << >> THEN << >> ELSE <<pos>> \o r
               [] item.k = "alt" -> MatchAlt(item.alts, 1, rest, s, pos)
               [] OTHER ->
                    MatchRep(item, rest, s, pos,
                             RunLength(s, pos, item.cls, ~item.unbounded, item.max))

\* re.findall(pattern, s) from offset pos on: the matches left to right,
\* each search starting where the match before it ended.
RECURSIVE FindAll(_, _, _)
FindAll(items, s, pos) ==
    IF pos > Len(s) THEN << >>
    ELSE LET r == MatchAt(items, s, pos)
         IN  IF r = << >> THEN FindAll(items, s, pos + 1)
             ELSE <<[start |-> pos, marks |-> r]>> \o
                  FindAll(items, s, IF r[Len(r)] > pos THEN r[Len(r)] ELSE pos + 1)

\* The end of a match.
EndOf(m) == m.marks[Len(m.marks)]

(***************************************************************************)
(* SkillExtractor.extract_email                                            *)
(***************************************************************************)
Alnum == CharsOf(UpperLetters) \cup CharsOf(LowerLetters) \cup CharsOf(Digits)

\* [A-Za-z0-9._%+-]
EmailLocalClass == Alnum \cup {".", "_", "%", "+", "-"}

\* [A-Za-z0-9.-]
EmailDomainClass == Alnum \cup {".", "-"}

\* [A-Z|a-z]
EmailTldClass == CharsOf(UpperLetters) \cup {"|"} \cup CharsOf(LowerLetters)

\* r'\b[A-Za-z0-9._%+-]+@[A-Za-z0-9.-]+\.[A-Z|a-z]{2,}\b'
email_pattern ==
    <<Boundary, AtLeast(EmailLocalClass, 1)>> \o Lit("@") \o
    <<AtLeast(EmailDomainClass, 1)>> \o Lit(".") \o
    <<AtLeast(EmailTldClass, 2), Boundary>>

\* The text of a match (a pattern without groups).
MatchText(s, m) == SubSeq(s, m.start + 1, EndOf(m))

\* The text of the group of a match (a pattern with one group).
GroupText(s, m) == SubSeq(s, m.marks[1] + 1, m.marks[2])

\* The last match instead of the first.
extract_email_last(text_in) ==
    LET matches == FindAll(email_pattern, text_in, 0)
    IN  IF matches # << >> THEN MatchText(text_in, matches[Len(matches)]) ELSE None

extract_email(text_in) ==
    LET matches == FindAll(email_pattern, text_in, 0)
    IN  IF matches # << >> THEN MatchText(text_in, matches[1]) ELSE None

(***************************************************************************)
(* SkillExtractor.extract_phone                                            *)
(***************************************************************************)
DigitClass == CharsOf(Digits)

\* [-.\s]
PhoneSeparators == {"-", "."} \cup SpaceChars

phone_patterns ==
    << \* r'\+?\d{1,3}[-.\s]?\(?\d{3}\)?[-.\s]?\d{3}[-.\s]?\d{4}'
       << Rep({"+"}, 0, 1), Rep(DigitClass, 1, 3), Rep(PhoneSeparators, 0, 1),
          Rep({"("}, 0, 1), Rep(DigitClass, 3, 3), Rep({")"}, 0, 1),
          Rep(PhoneSeparators, 0, 1), Rep(DigitClass, 3, 3),
          Rep(PhoneSeparators, 0, 1), Rep(DigitClass, 4, 4) >>,
       \* r'\b\d{10}\b'
       << Boundary, Rep(DigitClass, 10, 10), Boundary >>,
       \* r'\b\d{3}[-.\s]?\d{3}[-.\s]?\d{4}\b'
       << Boundary, Rep(DigitClass, 3, 3), Rep(PhoneSeparators, 0, 1),
          Rep(DigitClass, 3, 3), Rep(PhoneSeparators, 0, 1),
          Rep(DigitClass, 4, 4), Boundary >> >>

\* The for loop over the patterns from the n-th on: the first match of the
\* first pattern that has one.
RECURSIVE FirstPatternMatch(_, _, _)
FirstPatternMatch(patterns, s, n) ==
    IF n > Len(patterns) THEN << >>
    ELSE LET matches == FindAll(patterns[n], s, 0)
         IN  IF matches # << >> THEN <<matches[1]>>
             ELSE FirstPatternMatch(patterns, s, n + 1)

\* The match that starts first in the text, whatever pattern finds it.
extract_phone_earliest(text_in) ==
    LET firsts == {FindAll(phone_patterns[n], text_in, 0)[1] :
                      n \in {k \in 1..Len(phone_patterns) :
                                FindAll(phone_patterns[k], text_in, 0) # << >>}}
    IN  IF firsts = {} THEN None
        ELSE MatchText(text_in, CHOOSE m \in firsts : \A o \in firsts : m.start <= o.start)

extract_phone(text_in) ==
    LET hit == FirstPatternMatch(phone_patterns, text_in, 1)
    IN  IF hit # << >> THEN MatchText(text_in, hit[1]) ELSE None

(***************************************************************************)
(* SkillExtractor.extract_education                                        *)
(***************************************************************************)
\* \.?
OptionalDot == <<Rep({"."}, 0, 1)>>

\* r'\b(a|b|...)\b'
Degree(alts) == <<Boundary, Mark, Alt(alts), Mark, Boundary>>

\* degree_patterns, in lower case: re.IGNORECASE matches them against the
\* text case-insensitively.
degree_patterns ==
    << Degree(<< Lit("b") \o OptionalDot \o Lit("tech"), Lit("bachelor of technology"),
                 Lit("be"), Lit("b.e."), Lit("bachelor of engineering") >>),
       Degree(<< Lit("m") \o OptionalDot \o Lit("tech"), Lit("master of technology"),
                 Lit("me"), Lit("m.e."), Lit("master of engineering") >>),
       Degree(<< Lit("mba"), Lit("master of business administration") >>),
       Degree(<< Lit("b") \o OptionalDot \o Lit("sc"), Lit("bachelor of science"),
                 Lit("m") \o OptionalDot \o Lit("sc"), Lit("master of science") >>),
       Degree(<< Lit("bca"), Lit("bachelor of computer applications"),
                 Lit("mca"), Lit("master of computer applications") >>),
       Degree(<< Lit("phd"), Lit("ph.d."), Lit("doctorate") >>) >>

\* The match as it stands in the lower-cased text.
extract_education_lowered(text_in) ==
    LET hit == FirstPatternMatch(degree_patterns, Lower(text_in), 1)
    IN  IF hit # << >> THEN GroupText(Lower(text_in), hit[1]) ELSE None

extract_education(text_in) ==
    LET hit == FirstPatternMatch(degree_patterns, Lower(text_in), 1)
    IN  IF hit # << >> THEN GroupText(text_in, hit[1]) ELSE None

(***************************************************************************)
(* SkillExtractor.extract_experience_years                                 *)
(***************************************************************************)
\* (\d+)\+?\s*years?
YearsCount ==
    <<Mark, AtLeast(DigitClass, 1), Mark, Rep({"+"}, 0, 1), AtLeast(SpaceChars, 0)>> \o
    Lit("year") \o <<Rep({"s"}, 0, 1)>>

experience_patterns ==
    << \* r'(\d+)\+?\s*years?\s+(?:of\s+)?experience'
       YearsCount \o <<AtLeast(SpaceChars, 1),
                       Alt(<<Lit("of") \o <<AtLeast(SpaceChars, 1)>>, << >> >>)>> \o
           Lit("experience"),
       \* r'(\d+)\+?\s*years?\s+(?:in|with)'
       YearsCount \o <<AtLeast(SpaceChars, 1), Alt(<<Lit("in"), Lit("with")>>)>>,
       \* r'experience[:\s]+(\d+)\+?\s*years?'
       Lit("experience") \o <<AtLeast({":"} \cup SpaceChars, 1)>> \o YearsCount >>

\* int(match) of a string of digits.
RECURSIVE ParseInt(_, _)
ParseInt(digits, acc) ==
    IF digits = "" THEN acc
    ELSE ParseInt(Tail(digits),
                  10 * acc + (CHOOSE d \in 0..9 : Ch(Digits, d + 1) = Head(digits)))

\* The list years: the numbers of all matches of all patterns.
RECURSIVE YearsFound(_, _)
YearsFound(text_lower, n) ==
    IF n > Len(experience_patterns) THEN << >>
    ELSE LET matches == FindAll(experience_patterns[n], text_lower, 0)
         IN  [i \in 1..Len(matches) |-> ParseInt(GroupText(text_lower, matches[i]), 0)]
             \o YearsFound(text_lower, n + 1)

\* -1 for no years.
MaxOrMinusOne(years) ==
    IF years = << >> THEN -1
    ELSE CHOOSE y \in Range(years) : \A z \in Range(years) : z <= y

\* max(years) if years else 0
MaxOrZero(years) ==
    IF years = << >> THEN 0
    ELSE CHOOSE y \in Range(years) : \A z \in Range(years) : z <= y

\* years[0] instead of max(years).
extract_experience_years_first(text_in) ==
    LET years == YearsFound(Lower(text_in), 1)
    IN  IF years = << >> THEN 0 ELSE years[1]

extract_experience_years(text_in) == MaxOrZero(YearsFound(Lower(text_in), 1))

(***************************************************************************)
(* SkillExtractor.calculate_confidence, in hundredths of a point           *)
(***************************************************************************)
Min(a, b) == IF a <= b THEN a ELSE b

calculate_confidence_uncapped(skills_found, text_length) ==
    LET skill_score  == Len(skills_found) * 5 * 100
        length_score == Min(text_length, 40 * 100)
        base_score   == 5 * 100
    IN  Min(base_score + skill_score + length_score, 95 * 100)

calculate_confidence(skills_found, text_length) ==
    LET skill_score  == Min(Len(skills_found) * 5 * 100, 50 * 100)
        length_score == Min(text_length, 40 * 100)  \* text_length / 100
        base_score   == 5 * 100
        confidence   == base_score + skill_score + length_score
    IN  Min(confidence, 95 * 100)

(***************************************************************************)
(* Application.calculate_match_score; match_score in hundredths            *)
(***************************************************************************)
\* round(num / den, 2) in hundredths: the nearest hundredth, a tie going to
\* the even one.  (len / len) * 100 is a float; for lists shorter than 32
\* no quotient is a tie and the float rounds as the exact quotient does.
Round2(num, den) ==
    LET q == (num * 100) \div den
        r == (num * 100) % den
    IN  IF 2 * r < den THEN q
        ELSE IF 2 * r > den THEN q + 1
        ELSE IF q % 2 = 0 THEN q ELSE q + 1

\* The list as it is, not lower-cased.
LowerAllKeep(skills) == skills

\* [skill.lower() for skill in skills]
LowerAll(skills) == [i \in 1..Len(skills) |-> Lower(skills[i])]

IsStudentSkillCaseSensitive(required_skill, student_skills_lower) ==
    required_skill \in Range(student_skills_lower)

\* required_skill.lower() in student_skills_lower
IsStudentSkill(required_skill, student_skills_lower) ==
    Lower(required_skill) \in Range(student_skills_lower)

\* The for loop over job_required_skills from index k on.
RECURSIVE MatchLoop(_, _, _, _, _)
MatchLoop(required, student_skills_lower, k, matching, missing) ==
    IF k > Len(required) THEN [matching |-> matching, missing |-> missing]
    ELSE IF IsStudentSkill(required[k], student_skills_lower)
         THEN MatchLoop(required, student_skills_lower, k + 1,
                        Append(matching, required[k]), missing)
         ELSE MatchLoop(required, student_skills_lower, k + 1,
                        matching, Append(missing, required[k]))

MatchPercentageTruncated(matching, required) ==
    IF Len(required) > 0 THEN (Len(matching) * 100 * 100) \div Len(required) ELSE 0

\* The percentage, rounded to 2 decimal places.
MatchPercentage(matching, required) ==
    IF Len(required) > 0 THEN Round2(Len(matching) * 100, Len(required)) ELSE 0

(***************************************************************************)
(* Resume: the extracted data, the processing status, the version fields   *)
(* and the timestamps of the object                                        *)
(***************************************************************************)
\* Resume.__init__, uploaded_at being the reading of the clock.
Resume(uploaded_at) ==
    [extracted_text |-> None,
     extracted_skills |-> << >>,
     extracted_education |-> None,
     extracted_experience |-> << >>,
     extracted_email |-> None,
     extracted_phone |-> None,
     parsing_status |-> "pending",
     parsing_confidence |-> 0,
     parsing_error |-> None,
     version |-> 1,
     is_active |-> TRUE,
     uploaded_at |-> uploaded_at,
     processed_at |-> None]

\* Resume.set_extracted_data; 'experience or []' turns None into [].
set_extracted_data(self, skills, education, experience, email_in, phone_in, full_text, utcnow) ==
    [self EXCEPT !.extracted_skills = skills,
                 !.extracted_education = education,
                 !.extracted_experience = IF experience = None THEN << >> ELSE experience,
                 !.extracted_email = email_in,
                 !.extracted_phone = phone_in,
                 !.extracted_text = full_text,
                 !.parsing_status = "completed",
                 !.processed_at = utcnow]

\* Resume.mark_processing
mark_processing(self) == [self EXCEPT !.parsing_status = "processing"]

\* Resume.mark_failed
mark_failed(self, error_message, utcnow) ==
    [self EXCEPT !.parsing_status = "failed",
                 !.parsing_error = error_message,
                 !.processed_at = utcnow]

\* Resume.deactivate
deactivate(self) == [self EXCEPT !.is_active = FALSE]

\* Resume.to_dict, field by field (the file fields are left out).
Resume_to_dict(self) ==
    [extracted_text |-> self.extracted_text,
     extracted_skills |-> self.extracted_skills,
     extracted_education |-> self.extracted_education,
     extracted_experience |-> self.extracted_experience,
     extracted_email |-> self.extracted_email,
     extracted_phone |-> self.extracted_phone,
     parsing_status |-> self.parsing_status,
     parsing_confidence |-> self.parsing_confidence,
     parsing_error |-> self.parsing_error,
     version |-> self.version,
     is_active |-> self.is_active,
     uploaded_at |-> self.uploaded_at,
     processed_at |-> self.processed_at]

(***************************************************************************)
(* Bounds and inputs                                                       *)
(***************************************************************************)
\* Words of a generated text.
MaxWords == 2

\* Calls of extract_skills on one text.
MaxCalls == 2

\* Length of the skills_found argument of calculate_confidence.
MaxSkillsFound == 11

\* The text_length argument of calculate_confidence.
MaxTextLength == 4001

\* Lengths of job_required_skills and of student_skills.
MaxRequiredSkills == 3

MaxStudentSkills == 2

\* Texts of the specification and of the repository's tests.
SampleTexts ==
    { "",
      "I have 3 years experience in Python, React, and MongoDB",
      "Technical Skills: C++, Java, Python, MySQL, Git, REST API",
      "Proficient in Flask, Django, and MongoDB. Knowledge of AWS and Docker.",
      "enjoys programming", "I use js daily", "js2", "javascript",
      "I work with nodejs and Node.js", "js ecmascript",
      "I use c++ daily", "c# and csharp", "proficient in java2",
      "proficient in c++, python", "knowledge of REST API and c# and js or git",
      "CI/CD", "scikit-learn", "sql", "html css", "Express.js" }

Words == {"C++", "js", "REST API", "mysql", "java2", "Node.js"}

Separators == {" ", ", ", ""}

\* The texts of exactly n words.
RECURSIVE WordTexts(_)
WordTexts(n) ==
    IF n <= 1 THEN Words
    ELSE {t \o sep \o w : t \in WordTexts(n - 1), sep \in Separators, w \in Words}

\* '<lead-in> A, B and C' and '<lead-in> A, B, and C.'
ContextSkills == {"Python", "C++"}

LeadIns == {"proficient in ", "experience with ", "experience in ", "knowledge of ",
            "skilled in ", "expertise in ", "working with "}

ContextText(lead, a, b, c, oxford) ==
    IF oxford THEN lead \o a \o ", " \o b \o ", and " \o c \o "."
    ELSE lead \o a \o ", " \o b \o " and " \o c

ContextTexts ==
    {ContextText(lead, a, b, c, oxford) :
        lead \in LeadIns, a \in ContextSkills, b \in ContextSkills,
        c \in ContextSkills, oxford \in BOOLEAN}

Texts == SampleTexts \cup UNION {WordTexts(n) : n \in 1..MaxWords} \cup ContextTexts

\* Skill names of the two lists of an application.
SkillNames == {"Python", "python", "Flask", "React"}

RECURSIVE ListsUpTo(_, _)
ListsUpTo(S, n) ==
    IF n = 0 THEN {<< >>}
    ELSE LET shorter == ListsUpTo(S, n - 1)
         IN  shorter \cup {Append(q, v) : q \in shorter, v \in S}

StudentLists == ListsUpTo(SkillNames, MaxStudentSkills)

RequiredLists == ListsUpTo(SkillNames, MaxRequiredSkills)

\* Pieces of a generated resume text.
MaxPieces == 2

\* Texts of the specification, of the docstrings and around them.
FieldSamples ==
    { "", "contact: a.b@x.co", "mail me at first@a.org or second@b.org",
      "no at here", "a@b", "x@y.c", "a@b..com", "%a@x.co",
      "call 123.456.7890 now", "555 1234", "x1234567890", "12345678901",
      "123-456-7890 then 1234567890", "+91 9876543210",
      "MBA then B.Tech", "Ph.D. in Physics", "B.E. in Computer Science",
      "I want to be hired", "contact me", "M.Tech", "b.sc", "PhD", "B.E.",
      "M.E. degree", "mtech and BTECH", "Ph.D.", "1234567890", "Bachelor of science", "MCA, BCA",
      "B.Sc in maths", "M.Sc", "doctorate",
      "5 years experience", "3+ years of experience and 10 years in java",
      "experience: 7 years", "2 year with", "Experience 12years" }

FieldPieces ==
    { "a.b@x.co", "a@b.c|d", "123-456-7890", "+1 (123) 456-7890", "MBA", "B.Tech" }

\* The texts of exactly n pieces, one blank between two.
RECURSIVE PieceTexts(_)
PieceTexts(n) ==
    IF n <= 1 THEN FieldPieces
    ELSE {t \o " " \o w : t \in PieceTexts(n - 1), w \in FieldPieces}

FieldTexts == FieldSamples \cup UNION {PieceTexts(n) : n \in 1..MaxPieces}

\* Lines of a two-line text: lead-ins, lists and halves of multi-word names.
LineTexts ==
    { "", "python", "python, REST", "API and js", "REST", "API", "REST API",
      "proficient in", "c++", "proficient in c++ and", "c#, python", "knowledge of",
      "machine", "learning and react", "node", "js", "I use Node.js", "java" }

\* Arguments of set_extracted_data: with and without the optional ones.
ExtractedData ==
    { [skills |-> << >>, education |-> None, experience |-> None,
       email |-> None, phone |-> None, full_text |-> None],
      [skills |-> <<"Python">>, education |-> None, experience |-> << >>,
       email |-> None, phone |-> None, full_text |-> "Python"],
      [skills |-> <<"Python">>, education |-> "MBA", experience |-> <<"intern">>,
       email |-> "a.b@x.co", phone |-> "1234567890", full_text |-> "Python MBA"] }

\* The uploaded files: what extract_text_from_file makes of each, a text or
\* an exception with its message.
Files ==
    { [file_path |-> "uploads/cv.pdf", raises |-> None, extracted_text |-> "python"],
      [file_path |-> "uploads/cv.docx", raises |-> None, extracted_text |-> "MBA, java"],
      [file_path |-> "uploads/cv.doc", extracted_text |-> None,
       raises |-> "Failed to extract text from DOCX: File is not a zip file"] }

\* The texts the concurrent callers pass.
CallerTexts == {"python, Node.js", "a@b.co 5 years"}

\* The methods of skill_extractor that take the text alone.
FieldExtractors ==
    {"extract_email", "extract_phone", "extract_education", "extract_experience_years"}

\* What a method called with the text returns when no other call is running.
ReturnOf(method, text_in) ==
    CASE method = "extract_email" -> extract_email(text_in)
      [] method = "extract_phone" -> extract_phone(text_in)
      [] method = "extract_education" -> extract_education(text_in)
      [] method = "extract_experience_years" -> extract_experience_years(text_in)
      [] method = "calculate_confidence" ->
             calculate_confidence(CHOOSE found \in extract_skills(text_in, InitKnownSkills,
                                                                  InitSkillVariations) : TRUE,
                                  Len(text_in))

\* Arguments of mark_failed.
ErrorMessages == {"Unsupported file type: txt", "Failed to extract text from PDF: EOF", ""}

\* The skill lists an application is created with or reassigned to.
AppStudentLists == {<< >>, <<"python">>}

AppRequiredLists == {<< >>, <<"Python", "Flask">>}

\* The values update_status's docstring lists for new_status.
Statuses == {"applied", "shortlisted", "interviewed", "rejected", "hired"}

\* The latest reading of datetime.utcnow(), counted from the creation of the
\* application.
MaxTime == 1
MaxUploads == 2
MaxCallers == 2

\* The example of calculate_match_score's docstring.
DocRequired == <<"Python", "Flask", "MongoDB", "React">>

DocStudent == <<"Python", "Flask", "JavaScript">>

(***************************************************************************)
(* State                                                                   *)
(***************************************************************************)
VARIABLES
    known_skills,         \* skill_extractor.known_skills
    skill_variations,     \* skill_extractor.skill_variations
    text,                 \* the text of the request
    calls,                \* calls of extract_skills(text) that have returned
    skills,               \* what the last of them returned
    prev_skills,          \* what the one before it returned
    conf,                 \* the last calculate_confidence call and its result
    student_skills,       \* Application.student_skills
    job_required_skills,  \* Application.job_required_skills
    match_score,          \* Application.match_score, in hundredths
    matching_skills,      \* Application.matching_skills
    missing_skills,       \* Application.missing_skills
    scored,               \* calculate_match_score has run on the application
    status,               \* Application.status
    applied_date,         \* Application.applied_date
    status_updated_at,    \* Application.status_updated_at
    document,             \* what the last to_dict call returned, << >> before it
    parsed,               \* the field extractors that have returned
    email,                \* what extract_email(text) returned
    phone,                \* what extract_phone(text) returned
    education,            \* what extract_education(text) returned
    experience_years,     \* what extract_experience_years(text) returned
    loaded,               \* the last Application.from_dict call and its result
    line_a,               \* the first line of the text
    line_b,               \* the second line of the text
    parts,                \* the lines extract_skills has returned for
    skills_a,             \* what extract_skills(line_a) returned
    skills_b,             \* what extract_skills(line_b) returned
    resume,               \* a Resume object: its fields
    resumes,              \* db['resumes']: the student's documents, by _id
    student_profile,      \* db['users']: the student's profile
    uploads,              \* the upload_resume requests: position and locals
    callers               \* the concurrent callers of skill_extractor: position and locals

extractor == <<known_skills, skill_variations>>

request == <<text, calls, skills, prev_skills>>

match == <<match_score, matching_skills, missing_skills>>

workflow == <<status, applied_date, status_updated_at>>

application ==
    <<student_skills, job_required_skills, match, scored, workflow, document>>

fields == <<parsed, email, phone, education, experience_years>>

lines == <<line_a, line_b, parts, skills_a, skills_b>>

database == <<resumes, student_profile, uploads>>

vars == <<extractor, request, conf, application, fields, loaded, lines, resume, database, callers>>

\* skill_extractor = SkillExtractor()
InitExtractor ==
    /\ known_skills = InitKnownSkills
    /\ skill_variations = InitSkillVariations

InitRequest(texts) ==
    /\ text \in texts
    /\ calls = 0
    /\ skills = << >>
    /\ prev_skills = << >>

InitConf == conf = [called |-> FALSE, skills_found |-> << >>, text_length |-> 0, result |-> 0]

\* A constructor that computes the match of the lists it is given.
InitApplicationScored(students, requireds) ==
    /\ student_skills \in students
    /\ job_required_skills \in requireds
    /\ LET split == MatchLoop(job_required_skills, LowerAll(student_skills), 1, << >>, << >>)
       IN  /\ matching_skills = split.matching
           /\ missing_skills = split.missing
           /\ match_score = MatchPercentage(split.matching, job_required_skills)
    /\ scored = FALSE

\* Application.__init__
InitApplication(students, requireds) ==
    /\ student_skills \in students
    /\ job_required_skills \in requireds
    /\ match_score = 0
    /\ matching_skills = << >>
    /\ missing_skills = << >>
    /\ scored = FALSE

\* Application.__init__: the status and the two readings of the clock.
InitWorkflow(times) ==
    /\ status = "applied"
    /\ applied_date \in times
    /\ status_updated_at \in {t \in times : t >= applied_date}

\* No to_dict call yet.
InitDocument == document = << >>

\* No from_dict call yet.
NoDocument ==
    [student_skills |-> << >>, job_required_skills |-> << >>, match_score |-> 0,
     matching_skills |-> << >>, missing_skills |-> << >>, status |-> "applied",
     applied_date |-> 0, status_updated_at |-> 0]

InitLoaded == loaded = [called |-> FALSE, data |-> NoDocument, app |-> NoDocument]

\* resume = Resume(...), uploaded at the origin of the clock.
InitResume == resume = Resume(0)

\* An upload_resume request that has not reached the handler yet.
NoUpload ==
    [pc |-> "waiting",
     file |-> [file_path |-> None, raises |-> None, extracted_text |-> None],
     resume_id |-> 0, skills |-> << >>, education |-> None, experience_years |-> 0]

\* The student has no resume, the profile is the one User.__init__ makes,
\* and no request has arrived.
InitDatabase ==
    /\ resumes = << >>
    /\ student_profile = [skills |-> << >>, resume_url |-> None, education |-> None,
                          experience_years |-> 0]
    /\ uploads = [u \in 1..MaxUploads |-> NoUpload]

\* A caller that has not called yet.
NoCall ==
    [pc |-> "idle", method |-> None, text |-> "", text_lower |-> "",
     found_skills |-> {}, returned |-> None]

InitCallers == callers = [t \in 1..MaxCallers |-> NoCall]

\* The text is not taken line by line.
InitLines ==
    /\ line_a = ""
    /\ line_b = ""
    /\ parts = {}
    /\ skills_a = << >>
    /\ skills_b = << >>

\* No field extractor has been called on the text.
InitFields ==
    /\ parsed = {}
    /\ email = None
    /\ phone = None
    /\ education = None
    /\ experience_years = 0

(***************************************************************************)
(* Operations                                                              *)
(***************************************************************************)
\* skills = skill_extractor.extract_skills(text)
ExtractSkills ==
    /\ calls < MaxCalls
    /\ \E returned \in extract_skills(text, known_skills, skill_variations) :
           /\ skills' = returned
           /\ prev_skills' = skills
    /\ calls' = calls + 1
    /\ UNCHANGED <<extractor, callers, database, resume, lines, loaded, text, conf, application, fields>>

\* skills_a = skill_extractor.extract_skills(line_a)
ExtractSkillsOfFirst ==
    /\ "a" \notin parts
    /\ skills_a' \in extract_skills(line_a, known_skills, skill_variations)
    /\ parts' = parts \cup {"a"}
    /\ UNCHANGED <<extractor, callers, database, resume, loaded, request, conf, application, fields,
                   line_a, line_b, skills_b>>

\* skills_b = skill_extractor.extract_skills(line_b)
ExtractSkillsOfSecond ==
    /\ "b" \notin parts
    /\ skills_b' \in extract_skills(line_b, known_skills, skill_variations)
    /\ parts' = parts \cup {"b"}
    /\ UNCHANGED <<extractor, callers, database, resume, loaded, request, conf, application, fields,
                   line_a, line_b, skills_a>>

\* confidence = skill_extractor.calculate_confidence(skills_found, text_length)
CalculateConfidence(skills_found, text_length) ==
    /\ conf' = [called |-> TRUE, skills_found |-> skills_found,
                text_length |-> text_length,
                result |-> calculate_confidence(skills_found, text_length)]
    /\ UNCHANGED <<extractor, callers, database, resume, lines, loaded, request, application, fields>>

\* The upload route: calculate_confidence(skills, len(extracted_text))
\* follows extract_skills(extracted_text).
ConfidenceOfRequest ==
    /\ calls > 0
    /\ ~conf.called
    /\ CalculateConfidence(skills, Len(text))

\* Any skill list and any text length.
ConfidenceOfAny ==
    /\ ~conf.called
    /\ \E n \in 0..MaxSkillsFound, text_length \in 0..MaxTextLength :
           CalculateConfidence([i \in 1..n |-> "Python"], text_length)

\* The upload route calls the four field extractors one after the other.
\* email = skill_extractor.extract_email(text)
ExtractEmail ==
    /\ parsed = {}
    /\ email' = extract_email(text)
    /\ parsed' = parsed \cup {"email"}
    /\ UNCHANGED <<extractor, callers, database, resume, lines, loaded, request, conf, application, phone, education,
                   experience_years>>

\* phone = skill_extractor.extract_phone(text)
ExtractPhone ==
    /\ parsed = {"email"}
    /\ phone' = extract_phone(text)
    /\ parsed' = parsed \cup {"phone"}
    /\ UNCHANGED <<extractor, callers, database, resume, lines, loaded, request, conf, application, email, education,
                   experience_years>>

\* education = skill_extractor.extract_education(text)
ExtractEducation ==
    /\ parsed = {"email", "phone"}
    /\ education' = extract_education(text)
    /\ parsed' = parsed \cup {"education"}
    /\ UNCHANGED <<extractor, callers, database, resume, lines, loaded, request, conf, application, email, phone,
                   experience_years>>

\* experience_years = skill_extractor.extract_experience_years(text)
ExtractExperienceYears ==
    /\ parsed = {"email", "phone", "education"}
    /\ experience_years' = extract_experience_years(text)
    /\ parsed' = parsed \cup {"experience_years"}
    /\ UNCHANGED <<extractor, callers, database, resume, lines, loaded, request, conf, application, email, phone, education>>

\* resume.mark_processing()
MarkProcessing ==
    /\ resume' = mark_processing(resume)
    /\ UNCHANGED <<extractor, callers, database, lines, loaded, request, conf, application, fields>>

\* resume.set_extracted_data(skills, education, experience, email, phone, full_text)
SetExtractedData ==
    /\ \E data \in ExtractedData, utcnow \in 0..MaxTime :
           resume' = set_extracted_data(resume, data.skills, data.education, data.experience,
                                        data.email, data.phone, data.full_text, utcnow)
    /\ UNCHANGED <<extractor, callers, database, lines, loaded, request, conf, application, fields>>

\* resume.mark_failed(error_message)
MarkFailed ==
    /\ \E error_message \in ErrorMessages, utcnow \in 0..MaxTime :
           resume' = mark_failed(resume, error_message, utcnow)
    /\ UNCHANGED <<extractor, callers, database, lines, loaded, request, conf, application, fields>>

\* resume.deactivate()
Deactivate ==
    /\ resume' = deactivate(resume)
    /\ UNCHANGED <<extractor, callers, database, lines, loaded, request, conf, application, fields>>

\* upload_resume up to insert_one: the Resume is made, marked as processing
\* and inserted; its place in the collection is its _id.
UploadInsert(u) ==
    /\ uploads[u].pc = "waiting"
    /\ \E file \in Files, utcnow \in 0..MaxTime :
           /\ resumes' = Append(resumes, Resume_to_dict(mark_processing(Resume(utcnow))))
           /\ uploads' = [uploads EXCEPT ![u] =
                             [@ EXCEPT !.pc = "inserted",
                                       !.file = file,
                                       !.resume_id = Len(resumes) + 1]]
    /\ UNCHANGED <<extractor, callers, resume, lines, loaded, request, conf, application, fields,
                   student_profile>>

\* The text is extracted, the skills and the fields are found, and update_one
\* completes the document.
UploadComplete(u) ==
    /\ uploads[u].pc = "inserted"
    /\ uploads[u].file.raises = None
    /\ LET extracted_text == uploads[u].file.extracted_text
           education_found == extract_education(extracted_text)
           years == extract_experience_years(extracted_text)
       IN  \E found \in extract_skills(extracted_text, known_skills, skill_variations),
              utcnow \in 0..MaxTime :
               /\ resumes' = [resumes EXCEPT ![uploads[u].resume_id] =
                                 [@ EXCEPT !.extracted_text = extracted_text,
                                           !.extracted_skills = found,
                                           !.extracted_email = extract_email(extracted_text),
                                           !.extracted_phone = extract_phone(extracted_text),
                                           !.extracted_education = education_found,
                                           !.parsing_status = "completed",
                                           !.parsing_confidence =
                                               calculate_confidence(found, Len(extracted_text)),
                                           !.processed_at = utcnow]]
               /\ uploads' = [uploads EXCEPT ![u] =
                                 [@ EXCEPT !.pc = "completed",
                                           !.skills = found,
                                           !.education = education_found,
                                           !.experience_years = years]]
    /\ UNCHANGED <<extractor, callers, resume, lines, loaded, request, conf, application, fields,
                   student_profile>>

\* extract_text_from_file raises: update_one marks the document as failed
\* and the request returns 500.
UploadFail(u) ==
    /\ uploads[u].pc = "inserted"
    /\ uploads[u].file.raises # None
    /\ \E utcnow \in 0..MaxTime :
           resumes' = [resumes EXCEPT ![uploads[u].resume_id] =
                         [@ EXCEPT !.parsing_status = "failed",
                                   !.parsing_error = uploads[u].file.raises,
                                   !.processed_at = utcnow]]
    /\ uploads' = [uploads EXCEPT ![u] = [@ EXCEPT !.pc = "returned 500"]]
    /\ UNCHANGED <<extractor, callers, resume, lines, loaded, request, conf, application, fields,
                   student_profile>>

\* update_many: every other resume of the student is deactivated.
UploadDeactivateOthers(u) ==
    /\ uploads[u].pc = "completed"
    /\ resumes' = [id \in 1..Len(resumes) |->
                     IF id # uploads[u].resume_id
                     THEN [resumes[id] EXCEPT !.is_active = FALSE]
                     ELSE resumes[id]]
    /\ uploads' = [uploads EXCEPT ![u] = [@ EXCEPT !.pc = "deactivated"]]
    /\ UNCHANGED <<extractor, callers, resume, lines, loaded, request, conf, application, fields,
                   student_profile>>

\* The student's profile takes the skills and the request returns 201.
UploadUpdateProfile(u) ==
    /\ uploads[u].pc = "deactivated"
    /\ student_profile' = [skills |-> uploads[u].skills,
                           resume_url |-> uploads[u].file.file_path,
                           education |-> uploads[u].education,
                           experience_years |-> uploads[u].experience_years]
    /\ uploads' = [uploads EXCEPT ![u] = [@ EXCEPT !.pc = "returned 201"]]
    /\ UNCHANGED <<extractor, callers, resume, lines, loaded, request, conf, application, fields,
                   resumes>>

\* skill_extractor.extract_skills(text) up to Method 1: the text is lowered
\* and the caller's own found_skills is the empty set.
CallExtractSkills(t) ==
    /\ callers[t].pc = "idle"
    /\ \E text_in \in CallerTexts :
           callers' = [callers EXCEPT ![t] =
                         [@ EXCEPT !.pc = "method 1",
                                   !.method = "extract_skills",
                                   !.text = text_in,
                                   !.text_lower = Lower(text_in)]]
    /\ UNCHANGED <<extractor, database, resume, lines, loaded, request, conf, application,
                   fields>>

\* Method 1 that also takes the words it matched out of self.known_skills.
StepMethod1Consuming(t) ==
    /\ callers[t].pc = "method 1"
    /\ callers' = [callers EXCEPT ![t] =
                     [@ EXCEPT !.pc = "method 2",
                               !.found_skills = Method1(callers[t].text_lower, known_skills, @)]]
    /\ known_skills' = known_skills \ Range(FindAllWords(callers[t].text_lower, 0))
    /\ UNCHANGED <<skill_variations, database, resume, lines, loaded, request, conf,
                   application, fields>>

\* Method 1 of the call: reads self.known_skills.
StepMethod1(t) ==
    /\ callers[t].pc = "method 1"
    /\ callers' = [callers EXCEPT ![t] =
                     [@ EXCEPT !.pc = "method 2",
                               !.found_skills = Method1(callers[t].text_lower, known_skills, @)]]
    /\ UNCHANGED <<extractor, database, resume, lines, loaded, request, conf, application,
                   fields>>

\* Method 2 of the call: reads Config.KNOWN_SKILLS.
StepMethod2(t) ==
    /\ callers[t].pc = "method 2"
    /\ callers' = [callers EXCEPT ![t] =
                     [@ EXCEPT !.pc = "method 3",
                               !.found_skills = Method2(callers[t].text_lower, @)]]
    /\ UNCHANGED <<extractor, database, resume, lines, loaded, request, conf, application,
                   fields>>

\* Method 3 of the call: reads self.skill_variations.
StepMethod3(t) ==
    /\ callers[t].pc = "method 3"
    /\ callers' = [callers EXCEPT ![t] =
                     [@ EXCEPT !.pc = "method 4",
                               !.found_skills = Method3(callers[t].text_lower, skill_variations, @)]]
    /\ UNCHANGED <<extractor, database, resume, lines, loaded, request, conf, application,
                   fields>>

\* Method 4 of the call: reads self.known_skills.
StepMethod4(t) ==
    /\ callers[t].pc = "method 4"
    /\ callers' = [callers EXCEPT ![t] =
                     [@ EXCEPT !.pc = "sort",
                               !.found_skills = Method4(callers[t].text_lower, known_skills, @)]]
    /\ UNCHANGED <<extractor, database, resume, lines, loaded, request, conf, application,
                   fields>>

\* return sorted(list(found_skills))
ReturnSkills(t) ==
    /\ callers[t].pc = "sort"
    /\ \E order \in ListsOf(callers[t].found_skills) :
           callers' = [callers EXCEPT ![t] =
                         [@ EXCEPT !.pc = "returned", !.returned = Sorted(order)]]
    /\ UNCHANGED <<extractor, database, resume, lines, loaded, request, conf, application,
                   fields>>

\* A field extractor or calculate_confidence is called: the arguments are
\* the caller's own.
CallOther(t) ==
    /\ callers[t].pc = "idle"
    /\ \E method \in FieldExtractors \cup {"calculate_confidence"}, text_in \in CallerTexts :
           callers' = [callers EXCEPT ![t] =
                         [@ EXCEPT !.pc = "running", !.method = method, !.text = text_in]]
    /\ UNCHANGED <<extractor, database, resume, lines, loaded, request, conf, application,
                   fields>>

\* The field extractor or calculate_confidence returns: it works on its
\* arguments and its locals alone.
ReturnOther(t) ==
    /\ callers[t].pc = "running"
    /\ callers' = [callers EXCEPT ![t] =
                     [@ EXCEPT !.pc = "returned", !.returned = ReturnOf(callers[t].method, callers[t].text)]]
    /\ UNCHANGED <<extractor, database, resume, lines, loaded, request, conf, application,
                   fields>>

\* application.calculate_match_score()
CalculateMatchScore ==
    /\ LET student_skills_lower == LowerAll(student_skills)
           split == MatchLoop(job_required_skills, student_skills_lower, 1, << >>, << >>)
       IN  /\ matching_skills' = split.matching
           /\ missing_skills' = split.missing
           /\ match_score' = MatchPercentage(split.matching, job_required_skills)
    /\ scored' = TRUE
    /\ UNCHANGED <<extractor, callers, database, resume, lines, loaded, request, conf, fields, student_skills,
                   job_required_skills, workflow, document>>

\* An update_status that computes the match again.
UpdateStatusRecomputing ==
    /\ \E new_status \in Statuses, utcnow \in 0..MaxTime :
           /\ utcnow >= status_updated_at
           /\ status' = new_status
           /\ status_updated_at' = utcnow
    /\ LET split == MatchLoop(job_required_skills, LowerAll(student_skills), 1, << >>, << >>)
       IN  /\ matching_skills' = split.matching
           /\ missing_skills' = split.missing
           /\ match_score' = MatchPercentage(split.matching, job_required_skills)
    /\ UNCHANGED <<extractor, callers, database, resume, lines, loaded, request, conf, fields, student_skills,
                   job_required_skills, scored, applied_date, document>>

\* application.update_status(new_status); utcnow() is not before the last
\* reading.
UpdateStatus ==
    /\ \E new_status \in Statuses, utcnow \in 0..MaxTime :
           /\ utcnow >= status_updated_at
           /\ status' = new_status
           /\ status_updated_at' = utcnow
    /\ UNCHANGED <<extractor, callers, database, resume, lines, loaded, request, conf, fields, student_skills,
                   job_required_skills, match, scored, applied_date, document>>

\* The dictionary application.to_dict() returns: the skills, the match and
\* the status fields.
to_dict ==
    [student_skills |-> student_skills,
     job_required_skills |-> job_required_skills,
     match_score |-> match_score,
     matching_skills |-> matching_skills,
     missing_skills |-> missing_skills,
     status |-> status,
     applied_date |-> applied_date,
     status_updated_at |-> status_updated_at]

\* application.to_dict()
ToDict ==
    /\ document' = <<to_dict>>
    /\ UNCHANGED <<extractor, callers, database, resume, lines, loaded, request, conf, fields, student_skills,
                   job_required_skills, match, scored, workflow>>

\* Application.from_dict that computes the match of the restored lists.
from_dict_recomputing(data, utcnow) ==
    LET split == MatchLoop(data.job_required_skills, LowerAll(data.student_skills),
                           1, << >>, << >>)
    IN  [student_skills |-> data.student_skills,
         job_required_skills |-> data.job_required_skills,
         match_score |-> MatchPercentage(split.matching, data.job_required_skills),
         matching_skills |-> split.matching,
         missing_skills |-> split.missing,
         status |-> data.status,
         applied_date |-> data.applied_date,
         status_updated_at |-> data.status_updated_at]

\* Application.from_dict(data): the fields of the Application it returns.
\* The constructor runs on the two skill lists of data and reads the clock,
\* then the other fields are restored from data.
from_dict(data, utcnow) ==
    LET app == [student_skills |-> data.student_skills,
                job_required_skills |-> data.job_required_skills,
                match_score |-> 0,
                matching_skills |-> << >>,
                missing_skills |-> << >>,
                status |-> "applied",
                applied_date |-> utcnow,
                status_updated_at |-> utcnow]
    IN  [app EXCEPT !.match_score = data.match_score,
                    !.matching_skills = data.matching_skills,
                    !.missing_skills = data.missing_skills,
                    !.status = data.status,
                    !.applied_date = data.applied_date,
                    !.status_updated_at = data.status_updated_at]

\* Application.from_dict(document), document being what to_dict returned.
FromDict ==
    /\ document # << >>
    /\ \E utcnow \in 0..MaxTime :
           loaded' = [called |-> TRUE, data |-> document[1],
                      app |-> from_dict(document[1], utcnow)]
    /\ UNCHANGED <<extractor, callers, database, resume, lines, request, conf, application, fields>>

\* application.student_skills = value
SetStudentSkills ==
    /\ \E value \in AppStudentLists : student_skills' = value
    /\ UNCHANGED <<extractor, callers, database, resume, lines, loaded, request, conf, fields, job_required_skills,
                   match, scored, workflow, document>>

\* application.job_required_skills = value
SetJobRequiredSkills ==
    /\ \E value \in AppRequiredLists : job_required_skills' = value
    /\ UNCHANGED <<extractor, callers, database, resume, lines, loaded, request, conf, fields, student_skills,
                   match, scored, workflow, document>>

(***************************************************************************)
(* Specifications                                                          *)
(***************************************************************************)
\* The extractor serving requests.
Init ==
    /\ InitExtractor
    /\ InitRequest(Texts)
    /\ InitConf
    /\ InitApplication({<< >>}, {<< >>})
    /\ InitWorkflow({0})
    /\ InitDocument
    /\ InitFields
    /\ InitCallers
    /\ InitDatabase
    /\ InitResume
    /\ InitLines
    /\ InitLoaded

Next == ExtractSkills \/ ConfidenceOfRequest

Spec == Init /\ [][Next]_vars

\* calculate_confidence on its own.
InitConfidence ==
    /\ InitExtractor
    /\ InitRequest({""})
    /\ InitConf
    /\ InitApplication({<< >>}, {<< >>})
    /\ InitWorkflow({0})
    /\ InitDocument
    /\ InitFields
    /\ InitCallers
    /\ InitDatabase
    /\ InitResume
    /\ InitLines
    /\ InitLoaded

NextConfidence == ConfidenceOfAny

SpecConfidence == InitConfidence /\ [][NextConfidence]_vars

\* An application and its match.
InitMatch ==
    /\ InitExtractor
    /\ InitRequest({""})
    /\ InitConf
    /\ \/ InitApplication(StudentLists, RequiredLists)
       \/ InitApplication({DocStudent}, {DocRequired})
    /\ InitWorkflow({0})
    /\ InitDocument
    /\ InitFields
    /\ InitCallers
    /\ InitDatabase
    /\ InitResume
    /\ InitLines
    /\ InitLoaded

NextMatch == CalculateMatchScore

SpecMatch == InitMatch /\ [][NextMatch]_vars

\* The extractors run on the text of a resume.
InitFieldsOfText ==
    /\ InitExtractor
    /\ InitRequest(FieldTexts)
    /\ InitConf
    /\ InitApplication({<< >>}, {<< >>})
    /\ InitWorkflow({0})
    /\ InitDocument
    /\ InitFields
    /\ InitCallers
    /\ InitDatabase
    /\ InitResume
    /\ InitLines
    /\ InitLoaded

NextFields ==
    \/ ExtractSkills
    \/ ExtractEmail
    \/ ExtractPhone
    \/ ExtractEducation
    \/ ExtractExperienceYears

SpecFields == InitFieldsOfText /\ [][NextFields]_vars

\* extract_skills on a text of two lines and on each of the lines.
InitTwoLines ==
    /\ InitExtractor
    /\ \E a \in LineTexts, b \in LineTexts :
           /\ line_a = a
           /\ line_b = b
           /\ InitRequest({a \o "\n" \o b})
    /\ parts = {}
    /\ skills_a = << >>
    /\ skills_b = << >>
    /\ InitConf
    /\ InitApplication({<< >>}, {<< >>})
    /\ InitWorkflow({0})
    /\ InitDocument
    /\ InitFields
    /\ InitCallers
    /\ InitDatabase
    /\ InitResume
    /\ InitLoaded

NextLines ==
    \/ ExtractSkills
    \/ ExtractSkillsOfFirst
    \/ ExtractSkillsOfSecond

SpecLines == InitTwoLines /\ [][NextLines]_vars

\* A Resume object and the calls of its methods.
InitResumeObject ==
    /\ InitExtractor
    /\ InitRequest({""})
    /\ InitConf
    /\ InitApplication({<< >>}, {<< >>})
    /\ InitWorkflow({0})
    /\ InitDocument
    /\ InitFields
    /\ InitCallers
    /\ InitDatabase
    /\ InitResume
    /\ InitLines
    /\ InitLoaded

NextResume ==
    \/ MarkProcessing
    \/ SetExtractedData
    \/ MarkFailed
    \/ Deactivate

SpecResume == InitResumeObject /\ [][NextResume]_vars

\* The upload_resume requests of one student, each step of each request
\* taken in any order.
InitUploads ==
    /\ InitExtractor
    /\ InitRequest({""})
    /\ InitConf
    /\ InitApplication({<< >>}, {<< >>})
    /\ InitWorkflow({0})
    /\ InitDocument
    /\ InitFields
    /\ InitCallers
    /\ InitDatabase
    /\ InitResume
    /\ InitLines
    /\ InitLoaded

NextUploads ==
    \E u \in 1..MaxUploads :
        \/ UploadInsert(u)
        \/ UploadComplete(u)
        \/ UploadFail(u)
        \/ UploadDeactivateOthers(u)
        \/ UploadUpdateProfile(u)

SpecUploads == InitUploads /\ [][NextUploads]_vars

\* Concurrent callers of the singleton skill_extractor, the steps of their
\* calls taken in any order.
InitConcurrent ==
    /\ InitExtractor
    /\ InitRequest({""})
    /\ InitConf
    /\ InitApplication({<< >>}, {<< >>})
    /\ InitWorkflow({0})
    /\ InitDocument
    /\ InitFields
    /\ InitCallers
    /\ InitDatabase
    /\ InitResume
    /\ InitLines
    /\ InitLoaded

NextConcurrent ==
    \E t \in 1..MaxCallers :
        \/ CallExtractSkills(t)
        \/ StepMethod1(t)
        \/ StepMethod2(t)
        \/ StepMethod3(t)
        \/ StepMethod4(t)
        \/ ReturnSkills(t)
        \/ CallOther(t)
        \/ ReturnOther(t)

SpecConcurrent == InitConcurrent /\ [][NextConcurrent]_vars

\* An application over its life: scored, read, moved along and reassigned.
InitLife ==
    /\ InitExtractor
    /\ InitRequest({""})
    /\ InitConf
    /\ InitApplication(AppStudentLists, AppRequiredLists)
    /\ InitWorkflow({0})
    /\ InitDocument
    /\ InitFields
    /\ InitCallers
    /\ InitDatabase
    /\ InitResume
    /\ InitLines
    /\ InitLoaded

NextLife ==
    \/ CalculateMatchScore
    \/ UpdateStatus
    \/ ToDict
    \/ SetStudentSkills
    \/ SetJobRequiredSkills

SpecLife == InitLife /\ [][NextLife]_vars

\* An application that is scored, moved along, stored and loaded.
InitStore ==
    /\ InitExtractor
    /\ InitRequest({""})
    /\ InitConf
    /\ InitApplication(AppStudentLists, AppRequiredLists)
    /\ InitWorkflow({0})
    /\ InitDocument
    /\ InitFields
    /\ InitCallers
    /\ InitDatabase
    /\ InitResume
    /\ InitLines
    /\ InitLoaded

NextStore ==
    \/ CalculateMatchScore
    \/ UpdateStatus
    \/ ToDict
    \/ FromDict

SpecStore == InitStore /\ [][NextStore]_vars

(***************************************************************************)
(* Properties                                                              *)
(***************************************************************************)
\* The finds of each strategy run on its own.
Finds1 == Method1(Lower(text), known_skills, {})

Finds2 == Method2(Lower(text), {})

Finds3 == Method3(Lower(text), skill_variations, {})

Finds4 == Method4(Lower(text), known_skills, {})

\* The number of times v stands in the list q.
Count(q, v) == Cardinality({i \in 1..Len(q) : q[i] = v})

\* The literal w stands in t between whitespace, commas or the ends of t.
Delimiters == SpaceChars \cup {","}

StandsAlone(t, w, delims) ==
    \E p \in 0..(Len(t) - Len(w)) :
        /\ StartsAt(t, p, w)
        /\ p = 0 \/ Ch(t, p) \in delims
        /\ p + Len(w) = Len(t) \/ Ch(t, p + Len(w) + 1) \in delims

\* Every occurrence of w in t has a word character right before or after it.
OnlyEmbedded(t, w) ==
    /\ Contains(t, w)
    /\ \A p \in 0..(Len(t) - Len(w)) :
           StartsAt(t, p, w) =>
               \/ p > 0 /\ Ch(t, p) \in WordChars
               \/ p + Len(w) < Len(t) /\ Ch(t, p + Len(w) + 1) \in WordChars

\* The lower-cased canonical name of KNOWN_SKILLS[i] and its aliases.
NamesOf(i) ==
    {KnownSkillsLower[i]} \cup
    UNION {Range(skill_variations[n].variations) :
              n \in {m \in 1..Len(skill_variations) :
                        skill_variations[m].standard = KnownSkillsLower[i]}}

\* C1: the list extract_skills returns has no element twice, every element
\* is, with its casing, a name of Config.KNOWN_SKILLS, and None is never in
\* it, also when an alias matches whose key is no canonical skill.
C1_UniqueVocabularyNames ==
    calls > 0 =>
        /\ \A i, j \in 1..Len(skills) : i # j => skills[i] # skills[j]
        /\ \A i \in 1..Len(skills) : skills[i] \in Range(KNOWN_SKILLS)
        /\ None \notin Range(skills)

\* An alias of a key without a canonical skill ('sql', 'html/css') matched
\* and the call returned a skill.
C1_Witness ==
    /\ calls > 0
    /\ skills # << >>
    /\ \E n \in 1..Len(skill_variations) :
           /\ find_original_case(skill_variations[n].standard) = None
           /\ \E k \in 1..Len(skill_variations[n].variations) :
                  SearchWord(Lower(text), skill_variations[n].variations[k])

\* C2: after calculate_match_score, matching_skills is the subsequence of
\* job_required_skills (order and casing kept) whose lower-cased form is the
\* lower-cased form of some student skill, and missing_skills is the
\* subsequence of the other required skills.
C2_MatchingAndMissing ==
    LET Has(r) == \E i \in 1..Len(student_skills) : Lower(student_skills[i]) = Lower(r)
        Lacks(r) == ~Has(r)
    IN  scored =>
            /\ matching_skills = SelectSeq(job_required_skills, Has)
            /\ missing_skills = SelectSeq(job_required_skills, Lacks)

\* The docstring's example has been scored.
C2_Witness ==
    /\ scored
    /\ job_required_skills = DocRequired
    /\ student_skills = DocStudent
    /\ matching_skills = <<"Python", "Flask">>
    /\ missing_skills = <<"MongoDB", "React">>

\* C3: after calculate_match_score, match_score is 100 * len(matching_skills)
\* / len(job_required_skills) to the nearest hundredth when there are
\* required skills, and 0.0 with both lists empty when there are none; it
\* lies in [0, 100].
C3_ScoreIsRoundedPercentage ==
    LET m == Len(matching_skills)
        n == Len(job_required_skills)
        d == match_score * n - 100 * 100 * m
    IN  scored =>
            /\ n > 0 => 2 * d <= n /\ -2 * d <= n
            /\ n = 0 => match_score = 0 /\ matching_skills = << >> /\ missing_skills = << >>
            /\ 0 <= match_score /\ match_score <= 100 * 100

\* Two of three required skills matched: 66.67.
C3_Witness ==
    /\ scored
    /\ Len(job_required_skills) = 3
    /\ Len(matching_skills) = 2
    /\ match_score = 6667

\* C4: every name of Config.KNOWN_SKILLS that stands in the text between
\* whitespace, commas or the ends of the text is in the returned list.
C4_StandaloneNameDetected ==
    calls > 0 =>
        \A i \in 1..Len(KNOWN_SKILLS) :
            StandsAlone(text, KNOWN_SKILLS[i], Delimiters) =>
                KNOWN_SKILLS[i] \in Range(skills)

\* C5: for a text '<lead-in> A, B and C' or '<lead-in> A, B, and C.' of
\* single-token canonical skills, the returned list contains A, B and C.
C5_ContextListRecognised ==
    calls > 0 =>
        \A lead \in LeadIns, a \in ContextSkills, b \in ContextSkills,
           c \in ContextSkills, oxford \in BOOLEAN :
            text = ContextText(lead, a, b, c, oxford) => {a, b, c} \subseteq Range(skills)

\* C6: a canonical skill whose names (canonical name, aliases) occur in the
\* text only inside longer runs of word characters is not in the returned
\* list.
C6_EmbeddedNameNotMatched ==
    calls > 0 =>
        \A i \in 1..Len(KNOWN_SKILLS) :
            LET present == {w \in NamesOf(i) : Contains(Lower(text), w)}
            IN  (/\ present # {}
                 /\ \A w \in present :
                        CharsOf(w) \subseteq WordChars /\ OnlyEmbedded(Lower(text), w))
                => KNOWN_SKILLS[i] \notin Range(skills)

\* C7: when an alias of a canonical skill stands in the text as a separate
\* word, the returned list contains that skill, exactly once.
C7_AliasConvergence ==
    calls > 0 =>
        \A n \in 1..Len(skill_variations) :
            LET canonical == find_original_case(skill_variations[n].standard)
            IN  (/\ canonical # None
                 /\ \E k \in 1..Len(skill_variations[n].variations) :
                        StandsAlone(Lower(text), skill_variations[n].variations[k], SpaceChars))
                => Count(skills, canonical) = 1

\* C8: calculate_confidence returns 5 + min(5 * len(skills), 50) +
\* min(text_length / 100, 40), capped at 95; it lies in [5, 95] and is 5.0
\* for no skills and no text.
C8_ConfidenceFormula ==
    LET n == Len(conf.skills_found)
        skill_part == IF 5 * n < 50 THEN 5 * n * 100 ELSE 50 * 100
        length_part == IF conf.text_length < 40 * 100 THEN conf.text_length ELSE 40 * 100
        total == 5 * 100 + skill_part + length_part
    IN  conf.called =>
            /\ conf.result = (IF total < 95 * 100 THEN total ELSE 95 * 100)
            /\ 5 * 100 <= conf.result /\ conf.result <= 95 * 100
            /\ (n = 0 /\ conf.text_length = 0) => conf.result = 5 * 100

\* Both caps are passed: more than 10 skills and more than 4000 characters.
C8_Witness ==
    /\ conf.called
    /\ Len(conf.skills_found) > 10
    /\ conf.text_length > 40 * 100
    /\ conf.result = 95 * 100

C10_UnionOfStrategies ==
    calls > 0 => Range(skills) = Finds1 \cup Finds2 \cup Finds3 \cup Finds4

\* Every strategy finds a skill, and three of them one the others miss.
C10_Witness ==
    /\ calls > 0
    /\ Finds1 \ (Finds2 \cup Finds3 \cup Finds4) # {}
    /\ Finds2 # {}
    /\ Finds3 \ (Finds1 \cup Finds2 \cup Finds4) # {}
    /\ Finds4 \ (Finds1 \cup Finds2 \cup Finds3) # {}

\* C11: after calculate_match_score, every required skill is in
\* matching_skills or missing_skills and no entry stands twice in the two
\* lists taken together, also for a required list that repeats a skill.
C11_EachRequiredSkillOnce ==
    LET both == matching_skills \o missing_skills
    IN  scored =>
            /\ \A k \in 1..Len(job_required_skills) : job_required_skills[k] \in Range(both)
            /\ \A i, j \in 1..Len(both) : i # j => both[i] # both[j]

\* C12 as stated: no dictionary to_dict returns has required skills and
\* both match lists empty.
C12_ComputedAtConstruction ==
    document # << >> =>
        (document[1].job_required_skills # << >> =>
            document[1].matching_skills \o document[1].missing_skills # << >>)

\* C12, amended: until calculate_match_score is called the application has
\* match_score 0.0 and empty matching_skills and missing_skills, whatever
\* its skill lists are, and so has a dictionary to_dict returned by then.
C12_MatchPendingUntilCalculated ==
    ~scored =>
        /\ match_score = 0 /\ matching_skills = << >> /\ missing_skills = << >>
        /\ document # << >> =>
               /\ document[1].match_score = 0
               /\ document[1].matching_skills = << >>
               /\ document[1].missing_skills = << >>

\* to_dict before calculate_match_score, on an application with required
\* skills.
C12_Witness ==
    /\ ~scored
    /\ document # << >>
    /\ document[1].job_required_skills # << >>
    /\ document[1].matching_skills = << >>
    /\ document[1].missing_skills = << >>

\* C13: once calculate_match_score has run, every step that is not another
\* calculate_match_score call (update_status, to_dict, a reassignment of
\* student_skills or job_required_skills) leaves match_score,
\* matching_skills and missing_skills as they are.
C13_NoAutomaticRecompute ==
    [][scored => (CalculateMatchScore \/ UNCHANGED match)]_vars

\* After the match was computed the lists were reassigned, the status
\* updated and the application read, and the match is still that of the
\* replaced lists.
C13_Witness ==
    /\ scored
    /\ status # "applied"
    /\ document # << >>
    /\ document[1].job_required_skills = job_required_skills
    /\ document[1].matching_skills = matching_skills
    /\ matching_skills #
           MatchLoop(job_required_skills, LowerAll(student_skills), 1, << >>, << >>).matching

\* The offsets at which the character c stands in s.
OffsetsOf(s, c) == {i \in 1..Len(s) : Ch(s, i) = c}

\* Every character of s after offset i up to offset j is in cls.
AllIn(s, i, j, cls) == \A k \in (i + 1)..j : Ch(s, k) \in cls

\* s from offset i up to offset j reads local@domain.tld between two word
\* boundaries, in the classes of the email pattern.
EmailSpan(s, i, j) ==
    /\ WordBoundary(s, i)
    /\ WordBoundary(s, j)
    /\ \E at \in OffsetsOf(s, "@"), dot \in OffsetsOf(s, ".") :
           /\ i + 1 < at /\ at + 1 < dot /\ dot + 2 <= j
           /\ AllIn(s, i, at - 1, EmailLocalClass)
           /\ AllIn(s, at, dot - 1, EmailDomainClass)
           /\ AllIn(s, dot, j, EmailTldClass)

EmailSpans(s) ==
    IF OffsetsOf(s, "@") = {} THEN {}
    ELSE {span \in (0..Len(s)) \X (0..Len(s)) : EmailSpan(s, span[1], span[2])}

\* C14: on the empty text extract_skills returns [], extract_email,
\* extract_phone and extract_education return None and
\* extract_experience_years returns 0.
C14_TotalOnEmptyText ==
    text = "" =>
        /\ calls > 0 => skills = << >>
        /\ "email" \in parsed => email = None
        /\ "phone" \in parsed => phone = None
        /\ "education" \in parsed => education = None
        /\ "experience_years" \in parsed => experience_years = 0

\* All five extractors have returned on the empty text.
C14_Witness ==
    /\ text = ""
    /\ calls > 0
    /\ parsed = {"email", "phone", "education", "experience_years"}

\* C15: extract_email returns a substring that reads as the email pattern
\* and starts no later than any other such substring, and None when there
\* is none, in particular when the text has no '@'.
C15_LeftmostEmail ==
    "email" \in parsed =>
        LET spans == EmailSpans(text)
        IN  /\ spans = {} <=> email = None
            /\ spans # {} =>
                   \E span \in spans :
                       /\ email = SubSeq(text, span[1] + 1, span[2])
                       /\ \A other \in spans : span[1] <= other[1]
            /\ OffsetsOf(text, "@") = {} => email = None

\* Of two addresses the earlier one is returned.
C15_Witness ==
    /\ "email" \in parsed
    /\ text = "mail me at first@a.org or second@b.org"
    /\ email = "first@a.org"

\* C16: a returned email is local@domain.tld, the local part of
\* alphanumerics and . _ % + - only, and what follows the last dot is two
\* or more ASCII letters.
C16_TldOfLettersOnly ==
    ("email" \in parsed /\ email # None) =>
        /\ OffsetsOf(email, "@") # {}
        /\ OffsetsOf(email, ".") # {}
        /\ LET at == CHOOSE i \in OffsetsOf(email, "@") : \A k \in OffsetsOf(email, "@") : i <= k
               dot == CHOOSE i \in OffsetsOf(email, ".") : \A k \in OffsetsOf(email, ".") : i >= k
           IN  /\ at > 1
               /\ AllIn(email, 0, at - 1, EmailLocalClass)
               /\ at < dot
               /\ Len(email) - dot >= 2
               /\ AllIn(email, dot, Len(email), CharsOf(UpperLetters) \cup CharsOf(LowerLetters))

\* The matches of each phone pattern in the text.
PhoneMatches == [n \in 1..Len(phone_patterns) |-> FindAll(phone_patterns[n], text, 0)]

\* The phone patterns that match somewhere in the text.
PhoneHits == {n \in 1..Len(phone_patterns) : PhoneMatches[n] # << >>}

\* C17: extract_phone returns the first match of the first of its three
\* patterns, in their order, that matches somewhere in the text, wherever
\* the later patterns match, and None only when none of the three matches.
C17_PhonePriority ==
    "phone" \in parsed =>
        LET found == PhoneMatches
            hits == {n \in DOMAIN found : found[n] # << >>}
        IN  /\ hits = {} <=> phone = None
            /\ hits # {} =>
                   LET best == CHOOSE n \in hits : \A k \in hits : n <= k
                   IN  phone = MatchText(text, found[best][1])

\* The 3-3-4 grouping matches first in the text and the international form
\* after it is returned.
C17_Witness ==
    /\ "phone" \in parsed
    /\ text = "123-456-7890 +1 (123) 456-7890"
    /\ PhoneHits = {1, 3}
    /\ phone = "+1 (123) 456-7890"

\* The matches of each degree pattern in the text, case-insensitively.
DegreeMatches ==
    LET text_lower == Lower(text)
    IN  [n \in 1..Len(degree_patterns) |-> FindAll(degree_patterns[n], text_lower, 0)]

\* The degree patterns that match somewhere in the text.
DegreeHits == {n \in 1..Len(degree_patterns) : DegreeMatches[n] # << >>}

\* C18: when a degree pattern matches, extract_education returns the text,
\* in its original casing, of the first match of the first pattern in the
\* list's order that matches, wherever the later patterns match.
C18_EarliestDegreePattern ==
    "education" \in parsed =>
        LET found == DegreeMatches
            hits == {n \in DOMAIN found : found[n] # << >>}
        IN  hits # {} =>
                LET best == CHOOSE n \in hits : \A k \in hits : n <= k
                    first == found[best][1]
                IN  education = SubSeq(text, first.marks[1] + 1, first.marks[2])

\* 'MBA' stands before 'B.Tech' and 'B.Tech' is returned.
C18_Witness ==
    /\ "education" \in parsed
    /\ text = "MBA then B.Tech"
    /\ DegreeHits = {1, 3}
    /\ education = "B.Tech"

\* The dotted forms written in the degree patterns.
DottedForms == {"B.Tech", "M.Tech", "B.Sc", "M.Sc", "B.E.", "M.E.", "Ph.D."}

\* C19: when a dotted form of a degree stands in the text between
\* whitespace or the ends of the text, extract_education does not return
\* None.
C19_DottedFormsAccepted ==
    "education" \in parsed =>
        ((\E w \in DottedForms : StandsAlone(text, w, SpaceChars)) => education # None)

\* The degree names of the patterns, lower-cased, without the two-letter
\* abbreviations.
DegreeNames ==
    { "b.tech", "btech", "bachelor of technology", "bachelor of engineering", "b.e.",
      "m.tech", "mtech", "master of technology", "master of engineering", "m.e.",
      "mba", "master of business administration",
      "b.sc", "bsc", "bachelor of science", "m.sc", "msc", "master of science",
      "bca", "bachelor of computer applications",
      "mca", "master of computer applications",
      "phd", "ph.d.", "doctorate" }

\* C20: extract_education returns None for a text that holds none of the
\* degree names in any casing.
C20_NoDegreeNoEducation ==
    "education" \in parsed =>
        ((\A name \in DegreeNames : ~Contains(Lower(text), name)) => education = None)

\* The numbers N of the substrings of s that read as one of the three
\* phrasings, wherever they start.
ExperienceCaptures(s) ==
    LET reads == {MatchAt(experience_patterns[n], s, p) :
                     n \in 1..Len(experience_patterns), p \in 0..Len(s)} \ {<< >>}
    IN  {ParseInt(SubSeq(s, r[1] + 1, r[2]), 0) : r \in reads}

\* C21: extract_experience_years returns the greatest number N of the
\* phrasings 'N years [of] experience', 'N years in/with' and 'experience:
\* N years' read anywhere in the lower-cased text, a '+' after N or not, and
\* 0 when none reads; it is never negative.
C21_MaximumOfYears ==
    "experience_years" \in parsed =>
        LET captures == ExperienceCaptures(Lower(text))
        IN  /\ captures = {} => experience_years = 0
            /\ captures # {} =>
                   /\ experience_years \in captures
                   /\ \A n \in captures : n <= experience_years
            /\ experience_years >= 0

\* Two phrasings read, '3+' in the first and the greater number in the
\* second.
C21_Witness ==
    /\ "experience_years" \in parsed
    /\ text = "3+ years of experience and 10 years in java"
    /\ {3, 10} \subseteq ExperienceCaptures(Lower(text))
    /\ experience_years = 10

\* C22: every key of skill_variations is, lower-cased, a name of
\* Config.KNOWN_SKILLS, so that an alias of the table that stands in the
\* text as a separate word puts the canonical skill of its key in the
\* returned list.  Stated for the aliases made of word characters, which
\* have a word boundary on either side whenever they stand alone.
C22_AliasKeysAreCanonical ==
    calls > 0 =>
        \A n \in 1..Len(skill_variations) :
            (\E k \in 1..Len(skill_variations[n].variations) :
                /\ CharsOf(skill_variations[n].variations[k]) \subseteq WordChars
                /\ StandsAlone(Lower(text), skill_variations[n].variations[k], SpaceChars))
            => /\ skill_variations[n].standard \in known_skills
               /\ find_original_case(skill_variations[n].standard) \in Range(skills)

\* C27: for a text that is one name of Config.KNOWN_SKILLS without a blank,
\* every element of the returned list is that name.
C27_SingleNameYieldsItself ==
    calls > 0 =>
        \A i \in 1..Len(KNOWN_SKILLS) :
            (text = KNOWN_SKILLS[i] /\ SplitCount(text, FALSE) = 1) =>
                \A e \in Range(skills) : e = text

\* The place of a status in the workflow applied -> shortlisted ->
\* interviewed -> hired/rejected.
WorkflowRank(st) ==
    CASE st = "applied" -> 0
      [] st = "shortlisted" -> 1
      [] st = "interviewed" -> 2
      [] st \in {"hired", "rejected"} -> 3
      [] OTHER -> -1

\* C25: the status is always one of the five workflow values, no step moves
\* it back along the workflow, and no step changes it once it is hired or
\* rejected.
C25_StatusMovesForward ==
    [][/\ WorkflowRank(status') >= 0
       /\ WorkflowRank(status') >= WorkflowRank(status)
       /\ status \in {"hired", "rejected"} => status' = status]_vars

\* The set of the lower-cased entries of a skill list.
LowerSet(q) == {Lower(q[i]) : i \in 1..Len(q)}

\* The student lists up to the bound, lower-cased as calculate_match_score
\* lower-cases them, and their sets of lower-cased entries.
StudentListsLower == [q \in StudentLists |-> LowerAll(q)]

StudentLowerSets == [q \in StudentLists |-> LowerSet(q)]

\* C30: a student list with the same set of lower-cased entries (another
\* order, repeated entries, another casing) gives, for the same required
\* skills, the same match_score, matching_skills and missing_skills, and a
\* student list with more lower-cased entries gives no lower match_score.
C30_DependsOnLowerCasedSet ==
    scored =>
        LET mine == LowerSet(student_skills)
        IN  \A other \in StudentLists :
                LET split == MatchLoop(job_required_skills, StudentListsLower[other],
                                       1, << >>, << >>)
                    score == MatchPercentage(split.matching, job_required_skills)
                IN  /\ StudentLowerSets[other] = mine =>
                           /\ split.matching = matching_skills
                           /\ split.missing = missing_skills
                           /\ score = match_score
                    /\ mine \subseteq StudentLowerSets[other] => score >= match_score

\* A scored application with matching and missing skills whose student
\* list has a recased, a repeating and a longer counterpart, and the
\* longer one in either order.
C30_Witness ==
    /\ scored
    /\ student_skills = <<"python">>
    /\ matching_skills # << >>
    /\ missing_skills # << >>
    /\ {<<"Python">>, <<"python", "Python">>, <<"python", "Flask">>, <<"Flask", "python">>}
           \subseteq StudentLists
    /\ \E other \in StudentLists :
           /\ LowerSet(student_skills) \subseteq LowerSet(other)
           /\ LowerSet(other) # LowerSet(student_skills)

\* C29: the Application that from_dict builds from what to_dict returned
\* has every field as the dictionary has it: the skill lists, match_score,
\* matching_skills and missing_skills (not computed again), status,
\* applied_date and status_updated_at.
C29_RoundTrip ==
    loaded.called =>
        /\ loaded.app.student_skills = loaded.data.student_skills
        /\ loaded.app.job_required_skills = loaded.data.job_required_skills
        /\ loaded.app.match_score = loaded.data.match_score
        /\ loaded.app.matching_skills = loaded.data.matching_skills
        /\ loaded.app.missing_skills = loaded.data.missing_skills
        /\ loaded.app.status = loaded.data.status
        /\ loaded.app.applied_date = loaded.data.applied_date
        /\ loaded.app.status_updated_at = loaded.data.status_updated_at

\* An application stored before its match was computed, with required
\* skills, a student skill among them and an updated status, was loaded.
C29_Witness ==
    /\ loaded.called
    /\ loaded.data.job_required_skills # << >>
    /\ loaded.data.student_skills # << >>
    /\ loaded.data.matching_skills = << >>
    /\ loaded.data.missing_skills = << >>
    /\ loaded.data.status = "hired"
    /\ loaded.data.status_updated_at > loaded.data.applied_date

\* C28: for a text of two lines a and b, the returned list is the sorted
\* union of what extract_skills returns for a and for b.
C28_UnionOverLines ==
    (calls > 0 /\ parts = {"a", "b"}) =>
        /\ Range(skills) = Range(skills_a) \cup Range(skills_b)
        /\ \A i \in 1..(Len(skills) - 1) : StrLess(skills[i], skills[i + 1])

\* Each line has a skill of its own, and the two halves of 'REST API' on
\* either side of the line break make no skill.
C28_Witness ==
    /\ calls > 0
    /\ parts = {"a", "b"}
    /\ line_a = "python, REST"
    /\ line_b = "API and js"
    /\ skills_a = <<"Python">>
    /\ skills_b = <<"JavaScript">>
    /\ skills = <<"JavaScript", "Python">>

\* C26: parsing_status becomes completed or failed only from processing,
\* never changes once it is completed or failed, and parsing_error is set
\* only while the status is failed.
C26_ParsingWorkflow ==
    [][/\ (resume'.parsing_status \in {"completed", "failed"}
           /\ resume'.parsing_status # resume.parsing_status)
          => resume.parsing_status = "processing"
       /\ resume.parsing_status \in {"completed", "failed"}
          => resume'.parsing_status = resume.parsing_status
       /\ resume'.parsing_error # None => resume'.parsing_status = "failed"]_vars

\* C24: whenever no upload is in progress the student has at most one
\* active resume, and exactly one once an upload has succeeded.
C24_OnlyLatestActive ==
    (\A u \in 1..MaxUploads : uploads[u].pc \in {"waiting", "returned 201", "returned 500"})
    => LET active == {id \in 1..Len(resumes) : resumes[id].is_active}
       IN  /\ Cardinality(active) <= 1
           /\ (\E u \in 1..MaxUploads : uploads[u].pc = "returned 201")
              => Cardinality(active) = 1

\* What each method returns for each text when it runs alone.
AloneSkills == [text_in \in CallerTexts |->
                   extract_skills(text_in, InitKnownSkills, InitSkillVariations)]

AloneFound == [text_in \in CallerTexts |->
                  FoundSkills(text_in, InitKnownSkills, InitSkillVariations)]

AloneReturn == [method \in FieldExtractors \cup {"calculate_confidence"} |->
                   [text_in \in CallerTexts |-> ReturnOf(method, text_in)]]

\* C23: under any interleaving of concurrent calls known_skills and
\* skill_variations are never written, and each call comes to the skills
\* and returns the value it would when run alone.
C23_NoSharedMutableState ==
    /\ known_skills = InitKnownSkills
    /\ skill_variations = InitSkillVariations
    /\ \A t \in 1..MaxCallers :
          LET call == callers[t]
          IN  /\ (call.pc = "sort") => call.found_skills = AloneFound[call.text]
              /\ (call.pc = "returned" /\ call.method = "extract_skills")
                 => call.returned \in AloneSkills[call.text]
              /\ (call.pc = "returned" /\ call.method # "extract_skills")
                 => call.returned = AloneReturn[call.method][call.text]

\* Two calls of extract_skills overlap: one has run its four methods on its
\* own found_skills while the other is between its methods.
C23_Witness ==
    \E t1, t2 \in 1..MaxCallers :
        /\ t1 # t2
        /\ callers[t1].pc = "sort"
        /\ callers[t1].found_skills # {}
        /\ callers[t2].pc = "method 3"
        /\ callers[t2].found_skills # {}

====
